---- MODULE Spec2Model ----
(***************************************************************************)
(* A model of download_plex_photos.py: the planning walk over the remote   *)
(* photo catalog (main, gather_section_photos, gather_album_photos), the   *)
(* path mapping (sanitize_filename, build_download_url) and the sequential *)
(* executor (download_tasks).                                              *)
(*                                                                         *)
(* Text is a sequence of one-character strings, so that sanitize_filename, *)
(* f-string concatenation and os.path.join are computed as the code        *)
(* computes them.  The remote server is a function from URL to response;   *)
(* the local file system is the pair (dirs, files).  Every call frame of   *)
(* the recursive walk is an entry of `stack`, and one action is one loop   *)
(* iteration, call or return of the source.                                *)
(***************************************************************************)
EXTENDS Integers, Sequences, FiniteSets, TLC

\* ------------------------------------------------------------------ bounds
\* Number of Directory nodes (sections, albums, sub-albums) of a catalog.
NumNodes == 3
\* Longest hand-picked photo listing placed in one node of a catalog.
MaxPhotos == 2
\* Largest number of photo files present before the first run.
MaxExisting == 1

\* -------------------------------------------------------- python values
\* An XML attribute or a Python value that may be None.
None == [has |-> FALSE, v |-> <<>>]
Str(s) == [has |-> TRUE, v |-> s]
\* Python truthiness of an optional string: None and "" are falsy.
Truthy(a) == a.has /\ a.v # <<>>
\* a or b
PyOr(a, b) == IF Truthy(a) THEN a ELSE b
\* element.get(name, default)
GetDefault(a, default) == IF a.has THEN a.v ELSE default
\* f"{a}" of an optional string: None is rendered as the text None.
Fmt(a) == IF a.has THEN a.v ELSE <<"N", "o", "n", "e">>

\* ------------------------------------------------------ path mapper
Disallowed == {"\\", "/", "*", "?", ":", "\"", "<", ">", "|"}


\* sanitize_filename, with the name returned as it is.
sanitize_filename_Id(name) == name

sanitize_filename(name) ==
    [i \in 1..Len(name) |-> IF name[i] \in Disallowed THEN "_" ELSE name[i]]

build_download_url(base_url, part_key, token) ==
    base_url \o part_key \o <<"?download=1&X-Plex-Token=">> \o token

\* os.path.join(a, b) on a POSIX system.
PathJoin(a, b) ==
    IF b # <<>> /\ b[1] = "/" THEN b
    ELSE IF a = <<>> \/ a[Len(a)] = "/" THEN a \o b
    ELSE a \o <<"/">> \o b

\* The path without trailing separators: the file-system object a path names.
RECURSIVE Norm(_)
Norm(p) ==
    IF Len(p) > 1 /\ p[Len(p)] = "/" THEN Norm(SubSeq(p, 1, Len(p) - 1)) ELSE p

\* os.path.dirname of a normalised path.
RECURSIVE DirName(_)
DirName(p) ==
    IF p = <<>> THEN <<>>
    ELSE IF p[Len(p)] = "/" THEN Norm(p)
    ELSE DirName(SubSeq(p, 1, Len(p) - 1))

\* The directories os.makedirs(path, exist_ok=True) leaves in existence:
\* the path and every intermediate directory.
MakeDirs(d, path) ==
    d \cup {Norm(SubSeq(path, 1, k)) : k \in {j \in 1..Len(path) :
                                         j = Len(path) \/ path[j + 1] = "/"}}

\* ------------------------------------------------ command line arguments
base_url == <<"h">>
token == <<"t">>
download_dir == <<"d">>

sections_url == base_url \o <<"/library/sections?X-Plex-Token=">> \o token
all_url(section_key) ==
    base_url \o <<"/library/sections/">> \o section_key
             \o <<"/all?X-Plex-Token=">> \o token
children_url(key) ==
    base_url \o key \o <<"?includeChildren=1&X-Plex-Token=">> \o token

\* ------------------------------------------------------- XML elements
\* One child element of a MediaContainer.  Listings are flat: every Photo,
\* Metadata and Directory element is a child of the root, as the server
\* returns them, so './X' and './/X' select the same elements.
NoPart == [has |-> FALSE, key |-> None, container |-> None]
Part(key, container) == [has |-> TRUE, key |-> key, container |-> container]
Element(tag, type, key, title, ratingKey, id, part) ==
    [tag |-> tag, type |-> type, key |-> key, title |-> title,
     ratingKey |-> ratingKey, id |-> id, part |-> part]
Photo(ratingKey, id, title, part) ==
    Element("Photo", None, None, title, ratingKey, id, part)
Directory(type, key, title) ==
    Element("Directory", type, Str(key), title, None, None, NoPart)

\* root.findall('./Tag')
FindAll(root, tag) == SelectSeq(root, LAMBDA e : e.tag = tag)
\* root.findall('./Metadata[@type="photo"]')
FindMetadataPhotos(root) ==
    SelectSeq(root, LAMBDA e : e.tag = "Metadata" /\ e.type = Str(<<"photo">>))

\* FindPhotos, without the fallback to Metadata elements.
FindPhotos_NoFallback(root) == FindAll(root, "Photo")

\* photos = root.findall('./Photo'); if not photos: photos = root.findall(...)
FindPhotos(root) ==
    IF FindAll(root, "Photo") # <<>> THEN FindAll(root, "Photo")
    ELSE FindMetadataPhotos(root)

\* ------------------------------------------------------- photo elements
P_plain ==
    Photo(Str(<<"1">>), None, Str(<<"x">>), Part(Str(<<"/p1">>), None))
P_untitled ==
    Photo(None, Str(<<"2">>), Str(<<>>),
          Part(Str(<<"/p2">>), Str(<<"p", "n", "g">>)))
P_nopart == Photo(Str(<<"3">>), None, Str(<<"y">>), NoPart)
P_nokey == Photo(Str(<<"4">>), None, Str(<<"y">>), Part(None, None))
P_emptykey == Photo(Str(<<"4">>), None, Str(<<"y">>), Part(Str(<<>>), None))
P_slash ==
    Photo(Str(<<"5">>), None, Str(<<"/">>), Part(Str(<<"/p5">>), None))
P_under ==
    Photo(Str(<<"5">>), None, Str(<<"_">>), Part(Str(<<"/p6">>), None))
P_anon == Photo(None, None, None, Part(Str(<<"/p7">>), None))
P_blank == Photo(Str(<<>>), Str(<<>>), None, Part(Str(<<"/p8">>), None))
P_meta ==
    Element("Metadata", Str(<<"photo">>), None, Str(<<"m">>), Str(<<"9">>),
            None, Part(Str(<<"/p9">>), None))
P_deep ==
    Photo(Str(<<"7", "/", "7">>), None, Str(<<"x">>),
          Part(Str(<<"/p3">>), None))

PhotoPool ==
    {P_plain, P_untitled, P_nopart, P_nokey, P_emptykey, P_slash, P_under,
     P_anon, P_blank, P_meta, P_deep}
DefaultPhotos == <<P_plain, P_untitled>>
PartKeys == {e.part.key.v : e \in {x \in PhotoPool : Truthy(x.part.key)}}

\* ------------------------------------------------------------ catalogs
\* A catalog is a tree of Directory nodes 1..NumNodes below the sections
\* listing (node 0): the children of node 0 are the library sections, their
\* children the top-level albums, and so on.  Each node has the attributes of
\* its Directory element, the outcome of fetching its listing and the photo
\* elements of that listing.
Nodes == 1..NumNodes
Shapes == {p \in [Nodes -> 0..(NumNodes - 1)] : \A n \in Nodes : p[n] < n}
Chain == [n \in Nodes |-> n - 1]
Statuses == {"ok", "http", "xml"}

RECURSIVE Ascending(_)
Ascending(S) ==
    IF S = {} THEN <<>>
    ELSE LET m == CHOOSE x \in S : \A y \in S : x <= y
         IN <<m>> \o Ascending(S \ {m})

ChildNodes(cat, n) == Ascending({m \in Nodes : cat.parent[m] = n})
NodeKey(cat, n) ==
    IF cat.parent[n] = 0 THEN <<ToString(n)>> ELSE <<"/", ToString(n)>>
NodeUrl(cat, n) ==
    IF cat.parent[n] = 0 THEN all_url(NodeKey(cat, n))
    ELSE children_url(NodeKey(cat, n))
NodeElement(cat, n) == Directory(cat.type[n], NodeKey(cat, n), cat.title[n])
\* The document of a listing: the Directory elements first, then the photos.
Listing(cat, n) ==
    [i \in 1..Len(ChildNodes(cat, n)) |-> NodeElement(cat, ChildNodes(cat, n)[i])]
    \o (IF n = 0 THEN <<>> ELSE cat.photos[n])

\* requests.get(url) followed by raise_for_status() and ET.fromstring():
\* "http" is a failed request, "xml" a body that does not parse.
Remote(cat, url) ==
    LET hit == {n \in Nodes : NodeUrl(cat, n) = url}
        n == CHOOSE x \in hit : TRUE
    IN IF url = sections_url
       THEN [status |-> cat.secStatus,
             root |-> IF cat.secStatus = "ok" THEN Listing(cat, 0) ELSE <<>>]
       ELSE IF hit = {} THEN [status |-> "http", root |-> <<>>]
       ELSE [status |-> cat.status[n],
             root |-> IF cat.status[n] = "ok" THEN Listing(cat, n) ELSE <<>>]

\* The outcome of the streamed GET of a photo part: "ok", "http" (the request
\* or raise_for_status fails) or "stream" (iter_content fails after the file
\* has been opened).
Outcomes == {"ok", "http", "stream"}
RemoteFile(xf, url) ==
    LET hit == {k \in DOMAIN xf : build_download_url(base_url, k, token) = url}
    IN IF hit = {} THEN "http" ELSE xf[CHOOSE k \in hit : TRUE]

\* ------------------------------------------------------ configurations
\* The catalogs, inclusion lists, local trees and transfer outcomes a run is
\* started with.  Each family varies some of them over every combination
\* and keeps the others at the values of BaseConfig.
BaseCatalog ==
    [parent |-> Chain,
     title |-> [n \in Nodes |-> Str(<<"A">>)],
     type |-> [n \in Nodes |-> Str(<<"photo">>)],
     status |-> [n \in Nodes |-> "ok"],
     secStatus |-> "ok",
     photos |-> [n \in Nodes |-> DefaultPhotos]]
BaseConfig ==
    [catalog |-> BaseCatalog, include |-> {}, files |-> {},
     xfer |-> [k \in PartKeys |-> "ok"], delay |-> 0]
\* The base configuration over a tree of shape p, one photo in every listing.
TreeConfig(p) ==
    [BaseConfig EXCEPT !.catalog.parent = p,
                       !.catalog.photos = [n \in Nodes |-> <<P_plain>>]]

\* Every tree shape, every titling over an alphabet, the inclusion list
\* empty or holding the first title of the alphabet.
TitleAlphabets == {<<<<"A">>, <<"B">>>>, <<<<"/">>, <<"_">>>>}
FilterConfigs ==
    {[TreeConfig(p) EXCEPT !.catalog.title = t, !.include = inc] :
        p \in Shapes,
        <<t, inc>> \in UNION {[Nodes -> {Str(al[1]), Str(al[2])}] \X {{}, {al[1]}} :
                               al \in TitleAlphabets}}
\* Every tree shape, every set of nodes whose listing cannot be fetched or
\* cannot be parsed; the sections listing itself failing.
FailConfigs ==
    {[TreeConfig(p) EXCEPT !.catalog.status = st] :
        p \in Shapes,
        st \in [Nodes -> {"ok", "http"}] \cup [Nodes -> {"ok", "xml"}]}
    \cup {[BaseConfig EXCEPT !.catalog.secStatus = st] : st \in Statuses}
\* Every tree shape, sections of another type, Directory elements without
\* a title attribute.
TypeConfigs ==
    {[TreeConfig(p) EXCEPT !.catalog.type = ty] :
        p \in Shapes, ty \in [Nodes -> {Str(<<"photo">>), Str(<<"movie">>)}]}
    \cup {[TreeConfig(p) EXCEPT !.catalog.title = t] :
        p \in Shapes, t \in [Nodes -> {Str(<<"A">>), None}]}
\* Every listing of up to MaxPhotos photo elements, as the listing of a
\* section (node 1) or of its album (node 2), the other of the two listing
\* one photo; the remaining nodes are sections of another type.
PhotoSeqs == UNION {[1..k -> PhotoPool] : k \in 0..MaxPhotos}
PhotoCatalog(n, ps) ==
    [BaseCatalog EXCEPT
        !.parent = [m \in Nodes |-> IF m = 2 THEN 1 ELSE 0],
        !.type = [m \in Nodes |-> IF m <= 2 THEN Str(<<"photo">>)
                                  ELSE Str(<<"movie">>)],
        !.photos = [m \in Nodes |-> IF m = n THEN ps ELSE <<P_plain>>]]
PhotoConfigs ==
    {[BaseConfig EXCEPT !.catalog = PhotoCatalog(n, ps)] :
        n \in {1, 2}, ps \in PhotoSeqs}
\* Every transfer outcome of the default photos, with a negative delay, no
\* delay and a positive one;
\* every local tree that holds up to MaxExisting of the files beforehand.
DefaultPaths ==
    {<<"d", "/", "A">> \o dd \o f :
        dd \in {<<>>, <<"/", "A">>, <<"/", "A", "/", "A">>},
        f \in {<<"/", "1", "_", "x", ".", "j", "p", "g">>,
               <<"/", "2", "_", "2", ".", "p", "n", "g">>}}
TransferConfigs ==
    {[BaseConfig EXCEPT !.xfer = [k \in PartKeys |->
                                    IF k = <<"/p1">> THEN o1
                                    ELSE IF k = <<"/p2">> THEN o2 ELSE "ok"],
                        !.delay = dl] :
        o1 \in Outcomes, o2 \in Outcomes, dl \in {-1, 0, 1}}
    \cup {[BaseConfig EXCEPT !.files = have] :
            have \in {x \in SUBSET DefaultPaths : Cardinality(x) <= MaxExisting}}

Configs ==
    FilterConfigs \cup FailConfigs \cup TypeConfigs \cup PhotoConfigs
    \cup TransferConfigs

\* ---------------------------------------------------------------- state
VARIABLES
    catalog,         \* the remote catalog (never written by the program)
    xfer,            \* part key -> outcome of its streamed GET
    INCLUDE_ALBUMS,  \* the module-level inclusion list
    download_delay,  \* args.download_delay
    dirs, files,     \* the local tree: directories and files, by path
    truncated,       \* the files a failed transfer left incomplete
    pc,              \* where main() is
    photo_sections,  \* main's list of photo sections
    sec_i,           \* main's position in photo_sections
    all_tasks,       \* main's queue
    all_origins,     \* for each task of all_tasks, the photo element it was made from
    stack,           \* frames of gather_section_photos / gather_album_photos
    task_i,          \* download_tasks' position in the queue
    log,             \* what logging.info has printed in this run
    calls,           \* the calls this run made to the server and the file system
    attempts,        \* the outcome of each transfer this run attempted
    files0,          \* the files present when this run started
    prev             \* the previous run: whether there was one, whether it
                     \* planned a queue, whether every transfer succeeded

env == <<catalog, xfer, INCLUDE_ALBUMS, download_delay>>
tree == <<dirs, files, truncated>>
mainv == <<pc, photo_sections, sec_i, all_tasks, all_origins>>
obs == <<log, calls, attempts>>
hist == <<files0, prev>>
vars == <<env, tree, mainv, stack, task_i, obs, hist>>

Ended == {"aborted", "nosections", "nothing", "done", "crashed"}
NoPrev == [ran |-> FALSE, planned |-> FALSE, ok |-> FALSE]
Untitled == <<"u", "n", "t", "i", "t", "l", "e", "d">>
Jpg == <<"j", "p", "g">>

Event(ev, arg) == [ev |-> ev, arg |-> arg]
Call(op, arg) == [op |-> op, arg |-> arg]

Init ==
    \E c \in Configs :
        /\ catalog = c.catalog
        /\ xfer = c.xfer
        /\ INCLUDE_ALBUMS = c.include
        /\ download_delay = c.delay
        /\ dirs = UNION {MakeDirs({}, DirName(f)) : f \in c.files}
        /\ files = c.files
        /\ truncated = {}
        /\ pc = "start"
        /\ photo_sections = <<>>
        /\ sec_i = 1
        /\ all_tasks = <<>>
        /\ all_origins = <<>>
        /\ stack = <<>>
        /\ task_i = 1
        /\ log = <<>>
        /\ calls = <<>>
        /\ attempts = <<>>
        /\ files0 = c.files
        /\ prev = NoPrev


\* Exists, with the local tree never consulted.
Exists_Never(path) == FALSE

\* ----------------------------------------------------------- the walk
\* os.path.exists(path)
Exists(path) == Norm(path) \in (files \cup dirs)


\* HasPartKey, with the key of the part not looked at.
HasPartKey_AnyPart(photo) == photo.part.has

\* part is not None and part_key is truthy (lines 99-104).
HasPartKey(photo) == photo.part.has /\ Truthy(photo.part.key)

\* One iteration of the photo loop of gather_album_photos; the loop of
\* gather_section_photos is the same statements over section_dir.
\* kind: "nopart" (continue), "raise" (sanitize_filename(None) raises
\* TypeError), "exists" (SKIP) or "queued", with the task appended.
PlanPhoto(photo, album_title, album_dir) ==
    LET ratingKey == PyOr(photo.ratingKey, photo.id)
        photo_title == PyOr(photo.title, ratingKey)
        part == photo.part
        container == GetDefault(part.container, Jpg)
        safe_title == sanitize_filename(photo_title.v)
        filename == Fmt(ratingKey) \o <<"_">> \o safe_title \o <<".">> \o container
        local_path == PathJoin(album_dir, filename)
        task == [album_title |-> album_title, filename |-> filename,
                 local_path |-> local_path,
                 download_url |-> build_download_url(base_url, part.key.v, token)]
    IN IF ~HasPartKey(photo)
       THEN [kind |-> "nopart", local_path |-> <<>>, tasks |-> <<>>]
       ELSE IF ~photo_title.has
       THEN [kind |-> "raise", local_path |-> <<>>, tasks |-> <<>>]
       ELSE IF Exists(local_path)
       THEN [kind |-> "exists", local_path |-> local_path, tasks |-> <<>>]
       ELSE [kind |-> "queued", local_path |-> local_path, tasks |-> <<task>>]

\* What one iteration of a photo loop adds to the log and to the calls.
PhotoLog(r) ==
    IF r.kind = "exists" THEN <<Event("SKIP (exists)", r.local_path)>>
    ELSE IF r.kind = "queued" THEN <<Event("QUEUED", r.local_path)>>
    ELSE <<>>
PhotoCalls(r) ==
    IF r.kind \in {"exists", "queued"} THEN <<Call("exists", r.local_path)>>
    ELSE <<>>

Frame(fn, title, url, dir, root, fetched) ==
    [fn |-> fn, title |-> title, url |-> url, dir |-> dir, root |-> root,
     fetched |-> fetched, pi |-> 1, di |-> 1, results |-> <<>>,
     origins |-> <<>>]
Top == stack[Len(stack)]
InFrame(fn) == pc = "walk" /\ stack # <<>> /\ Top.fn = fn
SetTop(f) == [stack EXCEPT ![Len(stack)] = f]

\* ReturnTo, with the callee's results put before the caller's own.
ReturnTo_Prepend(results, origins) ==
    LET rest == SubSeq(stack, 1, Len(stack) - 1)
        caller == rest[Len(rest)]
    IN [rest EXCEPT ![Len(rest)] =
            [caller EXCEPT !.results = results \o @,
                           !.origins = origins \o @, !.di = @ + 1]]

\* The stack after the top frame has returned `results` to a caller that is
\* itself a frame: results.extend(...) / tasks.extend(...), next Directory.
ReturnTo(results, origins) ==
    LET rest == SubSeq(stack, 1, Len(stack) - 1)
        caller == rest[Len(rest)]
    IN [rest EXCEPT ![Len(rest)] =
            [caller EXCEPT !.results = @ \o results,
                           !.origins = @ \o origins, !.di = @ + 1]]
\* The photo element the loop of the top frame is at: the listing, by its
\* URL, and the position in it.
Origin(r) ==
    IF r.kind = "queued" THEN <<[url |-> Top.url, idx |-> Top.pi]>> ELSE <<>>
\* The top frame after one iteration of its photo loop.
AfterPhoto(r) ==
    [Top EXCEPT !.pi = @ + 1, !.results = @ \o r.tasks,
                !.origins = @ \o Origin(r)]

\* Filtered, with the inclusion list ignored.
Filtered_Off(album_title) == FALSE

\* if INCLUDE_ALBUMS and album_title not in INCLUDE_ALBUMS (line 185).
Filtered(album_title) ==
    INCLUDE_ALBUMS # {} /\ album_title \notin INCLUDE_ALBUMS

\* OnFetchError, with the failure ending the caller's loop over its albums.
OnFetchError_Abort ==
    LET rest == SubSeq(stack, 1, Len(stack) - 1)
        caller == rest[Len(rest)]
    IN [rest EXCEPT ![Len(rest)] =
            [caller EXCEPT !.di = Len(FindAll(caller.root, "Directory")) + 1]]

\* except: ... return results (lines 81-83 and 88-90): the call returns to
\* its caller, which goes on with its next Directory.
OnFetchError == ReturnTo(Top.results, Top.origins)

\* main, lines 239-260: the download directory and the sections listing.
Main_Start ==
    /\ pc = "start"
    /\ LET r == Remote(catalog, sections_url)
           found == SelectSeq(FindAll(r.root, "Directory"),
                              LAMBDA d : d.type = Str(<<"photo">>))
       IN /\ dirs' = MakeDirs(dirs, download_dir)
          /\ calls' = calls \o <<Call("makedirs", download_dir),
                                 Call("GET", sections_url)>>
          /\ IF r.status # "ok"
             THEN /\ pc' = "aborted"
                  /\ log' = log \o <<Event("ERROR: sections", <<r.status>>)>>
                  /\ UNCHANGED photo_sections
             ELSE IF found = <<>>
             THEN /\ pc' = "nosections"
                  /\ log' = log \o <<Event("No photo sections found!", <<>>)>>
                  /\ UNCHANGED photo_sections
             ELSE /\ pc' = "walk"
                  /\ photo_sections' = found
                  /\ UNCHANGED log
    /\ sec_i' = 1
    /\ all_tasks' = <<>>
    /\ all_origins' = <<>>
    /\ UNCHANGED <<env, files, truncated, stack, task_i, attempts, hist>>

\* main, lines 263-284: one section, up to the call of gather_section_photos.
Main_Section ==
    /\ pc = "walk" /\ stack = <<>> /\ sec_i <= Len(photo_sections)
    /\ LET section == photo_sections[sec_i]
           section_title == GetDefault(section.title, Untitled)
           section_dir == PathJoin(download_dir, sanitize_filename(section_title))
           url == all_url(Fmt(section.key))
           r == Remote(catalog, url)
       IN /\ dirs' = MakeDirs(dirs, section_dir)
          /\ calls' = calls \o <<Call("makedirs", section_dir), Call("GET", url)>>
          /\ IF r.status # "ok"
             THEN /\ log' = log \o <<Event("Section", section_title),
                                     Event("ERROR: section", section_title)>>
                  /\ sec_i' = sec_i + 1
                  /\ UNCHANGED stack
             ELSE /\ log' = log \o <<Event("Section", section_title)>>
                  /\ stack' = <<Frame("section", section_title, url,
                                      section_dir, r.root, TRUE)>>
                  /\ UNCHANGED sec_i
    /\ UNCHANGED <<env, files, truncated, pc, photo_sections, all_tasks,
                   all_origins, task_i, attempts, hist>>

\* gather_section_photos, lines 151-176: one top-level photo.
Section_Photo ==
    /\ InFrame("section") /\ Top.pi <= Len(FindPhotos(Top.root))
    /\ LET r == PlanPhoto(FindPhotos(Top.root)[Top.pi], Top.title, Top.dir)
       IN /\ pc' = IF r.kind = "raise" THEN "crashed" ELSE pc
          /\ stack' = IF r.kind = "raise" THEN stack
                      ELSE SetTop(AfterPhoto(r))
          /\ log' = log \o PhotoLog(r)
          /\ calls' = calls \o PhotoCalls(r)
    /\ UNCHANGED <<env, tree, photo_sections, sec_i, all_tasks, all_origins,
                   task_i, attempts, hist>>


\* Section_Album, with the directory of an album made before the inclusion
\* list is looked at.
Section_Album_MakesDir ==
    /\ InFrame("section") /\ Top.pi > Len(FindPhotos(Top.root))
    /\ Top.di <= Len(FindAll(Top.root, "Directory"))
    /\ LET album == FindAll(Top.root, "Directory")[Top.di]
           album_title == GetDefault(album.title, Untitled)
           album_subdir == PathJoin(Top.dir, sanitize_filename(album_title))
           album_url == children_url(Fmt(album.key))
       IN /\ dirs' = MakeDirs(dirs, album_subdir)
          /\ calls' = calls \o <<Call("makedirs", album_subdir)>>
          /\ IF Filtered(album_title)
             THEN /\ log' = log \o <<Event("SKIP (album not in INCLUDE_ALBUMS)",
                                           album_title)>>
                  /\ stack' = SetTop([Top EXCEPT !.di = @ + 1])
             ELSE /\ stack' = Append(stack, Frame("album", album_title, album_url,
                                                  album_subdir, <<>>, FALSE))
                  /\ UNCHANGED log
    /\ UNCHANGED <<env, files, truncated, mainv, task_i, attempts, hist>>

\* gather_section_photos, lines 180-192: one top-level album, filtered or
\* entered (up to the call of gather_album_photos).
Section_Album ==
    /\ InFrame("section") /\ Top.pi > Len(FindPhotos(Top.root))
    /\ Top.di <= Len(FindAll(Top.root, "Directory"))
    /\ LET album == FindAll(Top.root, "Directory")[Top.di]
           album_title == GetDefault(album.title, Untitled)
           album_subdir == PathJoin(Top.dir, sanitize_filename(album_title))
           album_url == children_url(Fmt(album.key))
       IN IF Filtered(album_title)
          THEN /\ log' = log \o <<Event("SKIP (album not in INCLUDE_ALBUMS)",
                                        album_title)>>
               /\ stack' = SetTop([Top EXCEPT !.di = @ + 1])
               /\ UNCHANGED <<dirs, calls>>
          ELSE /\ dirs' = MakeDirs(dirs, album_subdir)
               /\ calls' = calls \o <<Call("makedirs", album_subdir)>>
               /\ stack' = Append(stack, Frame("album", album_title, album_url,
                                               album_subdir, <<>>, FALSE))
               /\ UNCHANGED log
    /\ UNCHANGED <<env, files, truncated, mainv, task_i, attempts, hist>>

\* gather_section_photos, line 193, and main, line 285.
Section_Return ==
    /\ InFrame("section") /\ Top.pi > Len(FindPhotos(Top.root))
    /\ Top.di > Len(FindAll(Top.root, "Directory"))
    /\ all_tasks' = all_tasks \o Top.results
    /\ all_origins' = all_origins \o Top.origins
    /\ sec_i' = sec_i + 1
    /\ stack' = <<>>
    /\ UNCHANGED <<env, tree, pc, photo_sections, task_i, obs, hist>>


\* Album_Fetch, with the listing requested a second time before it is parsed.
Album_Fetch_Twice ==
    /\ InFrame("album") /\ ~Top.fetched
    /\ LET r == Remote(catalog, Top.url)
       IN /\ calls' = calls \o <<Call("GET", Top.url), Call("GET", Top.url)>>
          /\ IF r.status # "ok"
             THEN /\ log' = log \o <<Event("ERROR: album", Top.title)>>
                  /\ stack' = OnFetchError
             ELSE /\ stack' = SetTop([Top EXCEPT !.fetched = TRUE,
                                                 !.root = r.root])
                  /\ UNCHANGED log
    /\ UNCHANGED <<env, tree, mainv, task_i, attempts, hist>>

\* gather_album_photos, lines 75-90: the album's listing is requested and
\* parsed; on a failure the call returns its empty results.
Album_Fetch ==
    /\ InFrame("album") /\ ~Top.fetched
    /\ LET r == Remote(catalog, Top.url)
       IN /\ calls' = calls \o <<Call("GET", Top.url)>>
          /\ IF r.status # "ok"
             THEN /\ log' = log \o <<Event("ERROR: album", Top.title)>>
                  /\ stack' = OnFetchError
             ELSE /\ stack' = SetTop([Top EXCEPT !.fetched = TRUE,
                                                 !.root = r.root])
                  /\ UNCHANGED log
    /\ UNCHANGED <<env, tree, mainv, task_i, attempts, hist>>

\* gather_album_photos, lines 96-122: one photo of the album.
Album_Photo ==
    /\ InFrame("album") /\ Top.fetched
    /\ Top.pi <= Len(FindPhotos(Top.root))
    /\ LET r == PlanPhoto(FindPhotos(Top.root)[Top.pi], Top.title, Top.dir)
       IN /\ pc' = IF r.kind = "raise" THEN "crashed" ELSE pc
          /\ stack' = IF r.kind = "raise" THEN stack
                      ELSE SetTop(AfterPhoto(r))
          /\ log' = log \o PhotoLog(r)
          /\ calls' = calls \o PhotoCalls(r)
    /\ UNCHANGED <<env, tree, photo_sections, sec_i, all_tasks, all_origins,
                   task_i, attempts, hist>>


\* Album_Sub, with the inclusion list applied to sub-albums too.
Album_Sub_Filtering ==
    /\ InFrame("album") /\ Top.fetched
    /\ Top.pi > Len(FindPhotos(Top.root))
    /\ Top.di <= Len(FindAll(Top.root, "Directory"))
    /\ LET sub == FindAll(Top.root, "Directory")[Top.di]
           sub_title == GetDefault(sub.title, Untitled)
           sub_dir == PathJoin(Top.dir, sanitize_filename(sub_title))
           sub_url == children_url(Fmt(sub.key))
       IN IF Filtered(sub_title)
          THEN /\ stack' = SetTop([Top EXCEPT !.di = @ + 1])
               /\ UNCHANGED <<dirs, calls>>
          ELSE /\ dirs' = MakeDirs(dirs, sub_dir)
               /\ calls' = calls \o <<Call("makedirs", sub_dir)>>
               /\ stack' = Append(stack, Frame("album", sub_title, sub_url,
                                               sub_dir, <<>>, FALSE))
    /\ UNCHANGED <<env, files, truncated, mainv, task_i, log, attempts, hist>>

\* gather_album_photos, lines 126-132: one sub-album, up to the recursive call.
Album_Sub ==
    /\ InFrame("album") /\ Top.fetched
    /\ Top.pi > Len(FindPhotos(Top.root))
    /\ Top.di <= Len(FindAll(Top.root, "Directory"))
    /\ LET sub == FindAll(Top.root, "Directory")[Top.di]
           sub_title == GetDefault(sub.title, Untitled)
           sub_dir == PathJoin(Top.dir, sanitize_filename(sub_title))
           sub_url == children_url(Fmt(sub.key))
       IN /\ dirs' = MakeDirs(dirs, sub_dir)
          /\ calls' = calls \o <<Call("makedirs", sub_dir)>>
          /\ stack' = Append(stack, Frame("album", sub_title, sub_url, sub_dir,
                                          <<>>, FALSE))
    /\ UNCHANGED <<env, files, truncated, mainv, task_i, log, attempts, hist>>

\* gather_album_photos, line 134, and the caller's extend (line 132 or 192).
Album_Return ==
    /\ InFrame("album") /\ Top.fetched
    /\ Top.pi > Len(FindPhotos(Top.root))
    /\ Top.di > Len(FindAll(Top.root, "Directory"))
    /\ stack' = ReturnTo(Top.results, Top.origins)
    /\ UNCHANGED <<env, tree, mainv, task_i, obs, hist>>


\* Main_Summary, with the executor called as soon as a section has returned.
Main_Summary_Early ==
    /\ pc = "walk" /\ stack = <<>> /\ sec_i > 1
    /\ IF Len(all_tasks) = 0
       THEN /\ pc' = "nothing"
            /\ log' = log \o <<Event("All files already exist locally.", <<>>)>>
       ELSE /\ pc' = "exec"
            /\ log' = log \o <<Event("Total files to download",
                                     <<ToString(Len(all_tasks))>>)>>
    /\ task_i' = 1
    /\ UNCHANGED <<env, tree, photo_sections, sec_i, all_tasks, all_origins,
                   stack, calls, attempts, hist>>

\* main, lines 287-293: the summary, and the call of download_tasks.
Main_Summary ==
    /\ pc = "walk" /\ stack = <<>> /\ sec_i > Len(photo_sections)
    /\ IF Len(all_tasks) = 0
       THEN /\ pc' = "nothing"
            /\ log' = log \o <<Event("All files already exist locally.", <<>>)>>
       ELSE /\ pc' = "exec"
            /\ log' = log \o <<Event("Total files to download",
                                     <<ToString(Len(all_tasks))>>)>>
    /\ task_i' = 1
    /\ UNCHANGED <<env, tree, photo_sections, sec_i, all_tasks, all_origins,
                   stack, calls, attempts, hist>>

\* -------------------------------------------------------- the executor
\* open(path, 'wb'): the path is not a directory and its directory exists.
CanOpen(path) ==
    /\ Norm(path) \notin dirs
    /\ DirName(Norm(path)) = <<>> \/ DirName(Norm(path)) \in dirs


\* Transfer, with the file of a transfer that failed part-way removed.
Transfer_Cleanup(task) ==
    LET outcome == RemoteFile(xfer, task.download_url)
        path == Norm(task.local_path)
    IN IF outcome = "http" \/ ~CanOpen(task.local_path)
       THEN [ok |-> FALSE, files |-> files, truncated |-> truncated,
             opened |-> outcome # "http"]
       ELSE IF outcome = "stream"
       THEN [ok |-> FALSE, files |-> files \ {path},
             truncated |-> truncated \ {path}, opened |-> TRUE]
       ELSE [ok |-> TRUE, files |-> files \cup {path},
             truncated |-> truncated \ {path}, opened |-> TRUE]

\* What the try block of download_tasks does for one task: ok (no exception
\* was raised), the files and the incomplete files it leaves.
Transfer(task) ==
    LET outcome == RemoteFile(xfer, task.download_url)
        path == Norm(task.local_path)
    IN IF outcome = "http" \/ ~CanOpen(task.local_path)
       THEN [ok |-> FALSE, files |-> files, truncated |-> truncated,
             opened |-> outcome # "http"]
       ELSE IF outcome = "stream"
       THEN [ok |-> FALSE, files |-> files \cup {path},
             truncated |-> truncated \cup {path}, opened |-> TRUE]
       ELSE [ok |-> TRUE, files |-> files \cup {path},
             truncated |-> truncated \ {path}, opened |-> TRUE]


\* Pace, with the delay taken after every task.
Pace_Always(ok) == <<Call("sleep", <<>>)>>

\* The else branch of the try: the blocking delay after a successful transfer.
Pace(ok) == IF ok /\ download_delay > 0 THEN <<Call("sleep", <<>>)>> ELSE <<>>


\* NextTask, with a failed transfer ending the loop.
NextTask_StopOnFailure(ok) == IF ok THEN task_i + 1 ELSE Len(all_tasks) + 1

\* for i, task in enumerate(tasks, start=1): the position after a task,
\* whether or not its transfer raised.
NextTask(ok) == task_i + 1

\* download_tasks, lines 202-219: one task of the queue.
Download ==
    /\ pc = "exec" /\ task_i <= Len(all_tasks)
    /\ LET task == all_tasks[task_i]
           t == Transfer(task)
       IN /\ files' = t.files
          /\ truncated' = t.truncated
          /\ calls' = calls \o <<Call("GET", task.download_url)>>
                            \o (IF t.opened THEN <<Call("open", task.local_path)>>
                                ELSE <<>>)
                            \o Pace(t.ok)
          /\ log' = log \o <<Event("Downloading", task.local_path)>>
                        \o (IF t.ok THEN <<>>
                            ELSE <<Event("ERROR downloading", task.local_path)>>)
          /\ attempts' = Append(attempts, [i |-> task_i, ok |-> t.ok,
                                           local_path |-> task.local_path])
    /\ task_i' = NextTask(Transfer(all_tasks[task_i]).ok)
    /\ UNCHANGED <<env, dirs, mainv, stack, hist>>

\* download_tasks returns after the last task, and main with it.
Exec_Return ==
    /\ pc = "exec" /\ task_i > Len(all_tasks)
    /\ pc' = "done"
    /\ UNCHANGED <<env, tree, photo_sections, sec_i, all_tasks, all_origins,
                   stack, task_i, obs, hist>>

\* The program is started again on the same catalog and the local tree the
\* last run left.
Rerun ==
    /\ pc \in Ended
    /\ prev' = [ran |-> TRUE, planned |-> pc \in {"nothing", "done"},
                ok |-> \A i \in 1..Len(attempts) : attempts[i].ok]
    /\ files0' = files
    /\ pc' = "start"
    /\ photo_sections' = <<>>
    /\ sec_i' = 1
    /\ all_tasks' = <<>>
    /\ all_origins' = <<>>
    /\ stack' = <<>>
    /\ task_i' = 1
    /\ log' = <<>>
    /\ calls' = <<>>
    /\ attempts' = <<>>
    /\ UNCHANGED <<env, tree>>

Next ==
    \/ Main_Start
    \/ Main_Section
    \/ Section_Photo
    \/ Section_Album
    \/ Section_Return
    \/ Album_Fetch
    \/ Album_Photo
    \/ Album_Sub
    \/ Album_Return
    \/ Main_Summary
    \/ Download
    \/ Exec_Return
    \/ Rerun

Spec == Init /\ [][Next]_vars

\* The steps of main up to the call of download_tasks.  The program is one
\* thread that runs each statement it reaches: a step of the walk that can
\* be taken is taken.
WalkStep ==
    \/ Main_Start
    \/ Main_Section
    \/ Section_Photo
    \/ Section_Album
    \/ Section_Return
    \/ Album_Fetch
    \/ Album_Photo
    \/ Album_Sub
    \/ Album_Return
    \/ Main_Summary
\* The walk of a run on its own, from every configuration a run is started
\* with.
WalkSpec == Init /\ [][WalkStep]_vars /\ WF_vars(WalkStep)

\* ------------------------------------------- the catalog, read as a tree
\* What the properties below say about a run is stated over the catalog
\* itself, not over the walk's frames.
Par(n) == catalog.parent[n]
IsSection(n) == Par(n) = 0
IsTopAlbum(n) == Par(n) # 0 /\ Par(Par(n)) = 0
IsSubAlbum(n) == Par(n) # 0 /\ Par(Par(n)) # 0
TitleOf(n) == GetDefault(catalog.title[n], Untitled)
\* The nodes from the section of n down to n.
RECURSIVE Lineage(_)
Lineage(n) == IF n = 0 THEN <<>> ELSE Append(Lineage(Par(n)), n)
Ancestors(n) == {Lineage(n)[i] : i \in 1..Len(Lineage(n))}
TopAlbumOf(n) == Lineage(n)[2]
\* The inclusion list lets a top-level album through.
Included(n) == INCLUDE_ALBUMS = {} \/ TitleOf(n) \in INCLUDE_ALBUMS
\* The walk has to ask for the listing of n: n is a photo section, or the
\* listing of its parent was read and, at the top level, n is included.
RECURSIVE Entered(_)
Entered(n) ==
    IF IsSection(n) THEN catalog.type[n] = Str(<<"photo">>)
    ELSE /\ Entered(Par(n))
         /\ catalog.status[Par(n)] = "ok"
         /\ IsTopAlbum(n) => Included(n)
Visited(n) == Entered(n) /\ catalog.status[n] = "ok"
\* The photo leaves of the listing of n, in listing order.
PhotosOf(n) ==
    LET all == catalog.photos[n]
        tagged == {i \in 1..Len(all) : all[i].tag = "Photo"}
    IN SelectSeq(all, LAMBDA e :
           IF tagged # {} THEN e.tag = "Photo"
           ELSE e.tag = "Metadata" /\ e.type = Str(<<"photo">>))
HasKey(e) == e.part.has /\ e.part.key.has /\ e.part.key.v # <<>>
\* The path mapping of the design: baseDir / "{ratingKey}_{sanitize(title)}.{container}".
CleanChar(c) == IF c \in {"\\", "/", "*", "?", ":", "\"", "<", ">", "|"} THEN "_" ELSE c
Clean(name) == [i \in 1..Len(name) |-> CleanChar(name[i])]
RECURSIVE DirOf(_)
DirOf(n) ==
    (IF IsSection(n) THEN download_dir ELSE DirOf(Par(n)))
    \o (IF Clean(TitleOf(n)) = <<>> THEN <<>> ELSE <<"/">> \o Clean(TitleOf(n)))
KeyOfPhoto(e) ==
    IF e.ratingKey.has /\ e.ratingKey.v # <<>> THEN e.ratingKey ELSE e.id
TitleSource(e) ==
    IF e.title.has /\ e.title.v # <<>> THEN e.title ELSE KeyOfPhoto(e)
ContainerOf(e) == IF e.part.container.has THEN e.part.container.v ELSE Jpg
ExpectedPath(n, e) ==
    DirOf(n) \o <<"/">> \o Fmt(KeyOfPhoto(e)) \o <<"_">>
             \o Clean(TitleSource(e).v) \o <<".">> \o ContainerOf(e)

NodeOf(url) == CHOOSE n \in Nodes : NodeUrl(catalog, n) = url
OriginOf(n, p) == [url |-> NodeUrl(catalog, n), idx |-> p]
\* The photo occurrences of the catalog: a node and a position in its listing.
Occurrences == UNION {{<<n, p>> : p \in 1..Len(PhotosOf(n))} : n \in Nodes}
\* An occurrence the walk has to enqueue: its listing is read, it has a part
\* key and no file was at its path when the run started.
Wanted(n, p) ==
    /\ Visited(n)
    /\ HasKey(PhotosOf(n)[p])
    /\ Norm(ExpectedPath(n, PhotosOf(n)[p])) \notin files0
\* The origins gathered so far, oldest first: main's, then each frame's.
RECURSIVE FrameOrigins(_)
FrameOrigins(k) ==
    IF k = 0 THEN <<>> ELSE FrameOrigins(k - 1) \o stack[k].origins
Discovered == all_origins \o FrameOrigins(Len(stack))
Count(o) == Cardinality({k \in 1..Len(all_origins) : all_origins[k] = o})
\* The walk is over and main has its queue.
Planned == pc \in {"nothing", "exec", "done"}
HasEvent(ev, arg) == \E i \in 1..Len(log) : log[i] = Event(ev, arg)
Gets(url) == Cardinality({i \in 1..Len(calls) : calls[i] = Call("GET", url)})

\* ------------------------------------------------------------- claims

\* C1, as stated: with a non-empty inclusion list every task comes from a
\* photo under a top-level album whose title is in the list.
C1_OnlyIncludedAlbums ==
    \A k \in 1..Len(Discovered) :
        LET n == NodeOf(Discovered[k].url)
        IN INCLUDE_ALBUMS # {} =>
              ~IsSection(n) /\ TitleOf(TopAlbumOf(n)) \in INCLUDE_ALBUMS

\* C1, amended: every task comes from a photo of a section's own listing or
\* from a photo under a top-level album the inclusion list lets through; and
\* with an empty list every top-level album whose listing is read
\* contributes its missing photos.
C1_FilterCorrect ==
    /\ \A k \in 1..Len(Discovered) :
          LET n == NodeOf(Discovered[k].url)
          IN IsSection(n) \/ Included(TopAlbumOf(n))
    /\ (Planned /\ INCLUDE_ALBUMS = {}) =>
          \A o \in Occurrences :
              (IsTopAlbum(o[1]) /\ Wanted(o[1], o[2])) =>
                  Count(OriginOf(o[1], o[2])) >= 1

\* A run with a non-empty list that skipped one top-level album and queued a
\* photo of another.
C1_Witness ==
    /\ pc = "exec" /\ INCLUDE_ALBUMS # {}
    /\ \E n \in Nodes : IsTopAlbum(n) /\ ~Included(n) /\ Entered(Par(n))
                        /\ catalog.status[Par(n)] = "ok"
    /\ \E k \in 1..Len(all_origins) : IsTopAlbum(NodeOf(all_origins[k].url))

\* C2: after a run whose every planned task was transferred, the next walk
\* over the same catalog queues nothing and reports every photo that has a
\* part key as SKIP (exists).
PrevAllOk == prev.ran /\ prev.planned /\ prev.ok
SkipEvents == {i \in 1..Len(log) : log[i].ev = "SKIP (exists)"}
C2_Idempotent ==
    PrevAllOk =>
        /\ pc \in {"start", "walk", "nothing"}
        /\ Discovered = <<>>
        /\ all_tasks = <<>>
        /\ \A k \in 1..Len(stack) : stack[k].results = <<>>
        /\ pc = "nothing" =>
              /\ \A o \in Occurrences :
                    (Visited(o[1]) /\ HasKey(PhotosOf(o[1])[o[2]])) =>
                        HasEvent("SKIP (exists)",
                                 ExpectedPath(o[1], PhotosOf(o[1])[o[2]]))
              /\ Cardinality(SkipEvents) =
                    Cardinality({o \in Occurrences :
                        Visited(o[1]) /\ HasKey(PhotosOf(o[1])[o[2]])})

\* A later walk that ended with an empty queue, over more files than were
\* there before the first run: an earlier run transferred them.
C2_Witness ==
    PrevAllOk /\ pc = "nothing" /\ Cardinality(files0) > MaxExisting

\* C3: the tasks gathered so far are in depth-first pre-order of the
\* catalog: by listing order of sections, a node's own photos in listing
\* order before its sub-albums, a sub-album's whole subtree before the next
\* sibling.
Before(a, b) ==
    LET la == Lineage(NodeOf(a.url))
        lb == Lineage(NodeOf(b.url))
        diff == {i \in 1..Len(la) : i <= Len(lb) /\ la[i] # lb[i]}
        first == CHOOSE i \in diff : \A j \in diff : i <= j
    IN IF diff # {} THEN la[first] < lb[first]
       ELSE \/ Len(la) < Len(lb)
            \/ Len(la) = Len(lb) /\ a.idx < b.idx
C3_PreOrder ==
    \A i, j \in 1..Len(Discovered) :
        i < j => Before(Discovered[i], Discovered[j])

\* A queue with two photos of an album, then a photo of its sub-album, and
\* before them a photo of the section.
C3_Witness ==
    /\ pc = "exec"
    /\ \E i \in 1..(Len(all_origins) - 3) :
          LET n(k) == NodeOf(all_origins[k].url)
          IN /\ IsSection(n(i)) /\ Par(n(i + 1)) = n(i)
             /\ n(i + 2) = n(i + 1) /\ Par(n(i + 3)) = n(i + 2)

\* C4: a listing that cannot be fetched or parsed removes its subtree from
\* the queue and nothing else: no task comes from below a failed node, every
\* node whose ancestors were read is still asked for exactly once, and the
\* queue holds the missing photos of every node that was read.
C4_FailureIsolation ==
    Planned =>
        /\ \A k \in 1..Len(all_origins) :
              \A m \in Ancestors(NodeOf(all_origins[k].url)) :
                  catalog.status[m] = "ok"
        /\ \A n \in Nodes :
              Gets(NodeUrl(catalog, n)) = (IF Entered(n) THEN 1 ELSE 0)
        /\ {all_origins[k] : k \in 1..Len(all_origins)} =
              {OriginOf(o[1], o[2]) : o \in {x \in Occurrences : Wanted(x[1], x[2])}}

\* A finished walk in which a node failed, a later sibling of it
\* contributed a task and a task gathered before the failure is in the queue.
C4_Witness ==
    /\ pc = "exec"
    /\ \E n, m \in Nodes :
          /\ Entered(n) /\ catalog.status[n] # "ok"
          /\ Par(m) = Par(n) /\ m > n /\ ~IsSection(n)
          /\ \E k \in 1..Len(all_origins) : NodeOf(all_origins[k].url) = m
          /\ \E k \in 1..Len(all_origins) : NodeOf(all_origins[k].url) = Par(n)

\* C5: at the end of a walk every photo occurrence with a part key in a
\* listing that was read has exactly one task if no file was at its path and
\* none if there was, the task carries the mapped path, and the queue holds
\* nothing else.
C5_OneTaskPerMissingPhoto ==
    Planned =>
        /\ Len(all_tasks) = Len(all_origins)
        /\ \A o \in Occurrences :
              (Visited(o[1]) /\ HasKey(PhotosOf(o[1])[o[2]])) =>
                  Count(OriginOf(o[1], o[2])) =
                      (IF Wanted(o[1], o[2]) THEN 1 ELSE 0)
        /\ \A k \in 1..Len(all_origins) :
              /\ \E o \in Occurrences :
                    /\ all_origins[k] = OriginOf(o[1], o[2])
                    /\ Wanted(o[1], o[2])
                    /\ all_tasks[k].local_path =
                          ExpectedPath(o[1], PhotosOf(o[1])[o[2]])

\* A queue that omits a photo whose file was there and holds the others.
C5_Witness ==
    /\ pc = "exec" /\ files0 # {} /\ Len(all_tasks) >= 2
    /\ \E o \in Occurrences :
          /\ Visited(o[1]) /\ HasKey(PhotosOf(o[1])[o[2]])
          /\ ~Wanted(o[1], o[2])
          /\ Count(OriginOf(o[1], o[2])) = 0

\* C6: the inclusion list is applied to the top-level albums of a section
\* and nowhere else: every sub-album whose parent's listing was read is asked
\* for once and, when its own listing is read, has one task for each of its
\* missing photos, whatever its title; and the albums reported as skipped
\* are the top-level albums the list leaves out, once each.
SkippedAlbums ==
    {n \in Nodes : IsTopAlbum(n) /\ Visited(Par(n)) /\ ~Included(n)}
AlbumSkipEvents ==
    {i \in 1..Len(log) : log[i].ev = "SKIP (album not in INCLUDE_ALBUMS)"}
C6_FilterOnlyAtTopLevel ==
    Planned =>
        /\ \A n \in Nodes :
              (IsSubAlbum(n) /\ Visited(TopAlbumOf(n)) /\ Visited(Par(n))) =>
                  /\ Gets(NodeUrl(catalog, n)) = 1
                  /\ catalog.status[n] = "ok" =>
                        \A p \in 1..Len(PhotosOf(n)) :
                            Wanted(n, p) => Count(OriginOf(n, p)) = 1
        /\ Cardinality(AlbumSkipEvents) = Cardinality(SkippedAlbums)
        /\ \A i \in AlbumSkipEvents :
              \E n \in SkippedAlbums : log[i].arg = TitleOf(n)

\* A queue, planned under a non-empty list, with a photo of a sub-album
\* whose own title is not in the list.
C6_Witness ==
    /\ pc = "exec" /\ INCLUDE_ALBUMS # {}
    /\ \E k \in 1..Len(all_origins) :
          LET n == NodeOf(all_origins[k].url)
          IN IsSubAlbum(n) /\ TitleOf(n) \notin INCLUDE_ALBUMS

\* C7: the executor attempts the tasks one by one in queue order, each
\* once, whatever the outcome of the transfers before it, and returns after
\* the last one.
IsDownloadGet(c) ==
    c.op = "GET" /\ \E k \in PartKeys : c.arg = build_download_url(base_url, k, token)
C7_ExecutorContinues ==
    pc \in {"exec", "done"} =>
        /\ task_i <= Len(all_tasks) + 1
        /\ Len(attempts) = task_i - 1
        /\ \A i \in 1..Len(attempts) :
              /\ attempts[i].i = i
              /\ attempts[i].local_path = all_tasks[i].local_path
        /\ SelectSeq(calls, IsDownloadGet) =
              [i \in 1..(task_i - 1) |-> Call("GET", all_tasks[i].download_url)]
        /\ pc = "done" => Len(attempts) = Len(all_tasks)

\* A finished execution in which a transfer failed and the task after it
\* was attempted.
C7_Witness ==
    /\ pc = "done"
    /\ \E i \in 1..(Len(attempts) - 1) : ~attempts[i].ok /\ attempts[i + 1].ok

\* C8: the queue a walk plans is a function of the catalog, the
\* configuration and the files present when the run started, and of nothing
\* else (not of the directories, the incomplete files or the log an earlier
\* run left): task by task it is the queue that function gives; and two tasks
\* with the same directory, ratingKey, sanitized title and container have the
\* same local_path.
RECURSIVE Flatten(_)
Flatten(ss) == IF ss = <<>> THEN <<>> ELSE Head(ss) \o Flatten(Tail(ss))
ExpectedTask(n, e) ==
    [local_path |-> ExpectedPath(n, e),
     filename |-> Fmt(KeyOfPhoto(e)) \o <<"_">> \o Clean(TitleSource(e).v)
                      \o <<".">> \o ContainerOf(e),
     download_url |-> base_url \o e.part.key.v
                      \o <<"?download=1&X-Plex-Token=">> \o token]
OwnTasks(n) ==
    LET wanted == SelectSeq([p \in 1..Len(PhotosOf(n)) |-> p],
                            LAMBDA p : Wanted(n, p))
    IN [k \in 1..Len(wanted) |-> ExpectedTask(n, PhotosOf(n)[wanted[k]])]
RECURSIVE ExpectedFrom(_)
ExpectedFrom(n) ==
    LET sub == Ascending({c \in Nodes : Par(c) = n})
    IN (IF n # 0 /\ Visited(n) THEN OwnTasks(n) ELSE <<>>)
       \o (IF n = 0 \/ Visited(n)
           THEN Flatten([k \in 1..Len(sub) |-> ExpectedFrom(sub[k])])
           ELSE <<>>)
PhotoAt(o) == PhotosOf(NodeOf(o.url))[o.idx]
SamePathInputs(a, b) ==
    /\ DirOf(NodeOf(a.url)) = DirOf(NodeOf(b.url))
    /\ KeyOfPhoto(PhotoAt(a)) = KeyOfPhoto(PhotoAt(b))
    /\ Clean(TitleSource(PhotoAt(a)).v) = Clean(TitleSource(PhotoAt(b)).v)
    /\ ContainerOf(PhotoAt(a)) = ContainerOf(PhotoAt(b))
C8_Deterministic ==
    Planned =>
        /\ [k \in 1..Len(all_tasks) |->
               [local_path |-> all_tasks[k].local_path,
                filename |-> all_tasks[k].filename,
                download_url |-> all_tasks[k].download_url]] = ExpectedFrom(0)
        /\ \A i, j \in 1..Len(all_tasks) :
              SamePathInputs(all_origins[i], all_origins[j]) =>
                  all_tasks[i].local_path = all_tasks[j].local_path

\* A later walk that started, as the first did, from a tree without files
\* (the runs before it planned a queue and transferred nothing) and planned
\* a queue that is not empty.
C8_Witness ==
    pc = "exec" /\ prev.ran /\ prev.planned /\ files0 = {} /\ dirs # {}

\* C9: a photo without a Part element, or whose Part has no key or an empty
\* one, gets no task and raises nothing, and the photos and sub-albums after
\* it in the listing are processed.
C9_MissingPartTolerated ==
    /\ \A k \in 1..Len(Discovered) : HasKey(PhotoAt(Discovered[k]))
    /\ pc = "crashed" => HasKey(FindPhotos(Top.root)[Top.pi])
    /\ Planned =>
          \A o \in Occurrences :
              (Visited(o[1]) /\ ~HasKey(PhotosOf(o[1])[o[2]])) =>
                  /\ Count(OriginOf(o[1], o[2])) = 0
                  /\ \A q \in (o[2] + 1)..Len(PhotosOf(o[1])) :
                        Wanted(o[1], q) => Count(OriginOf(o[1], q)) = 1
                  /\ \A c \in Nodes :
                        (Par(c) = o[1] /\ Entered(c)) =>
                            Gets(NodeUrl(catalog, c)) = 1

\* A finished walk over a listing with a photo that has no usable part,
\* followed by a photo that was queued and by an album that was fetched.
C9_Witness ==
    /\ pc = "exec"
    /\ \E o \in Occurrences :
          /\ Visited(o[1]) /\ ~HasKey(PhotosOf(o[1])[o[2]])
          /\ \E q \in (o[2] + 1)..Len(PhotosOf(o[1])) :
                Count(OriginOf(o[1], q)) = 1
          /\ \E c \in Nodes : Par(c) = o[1] /\ Gets(NodeUrl(catalog, c)) = 1

\* C10, as stated: no two tasks of a queue have the same local_path.
C10_UniqueLocalPath ==
    \A i, j \in 1..Len(all_tasks) :
        i # j => all_tasks[i].local_path # all_tasks[j].local_path

\* C11, as stated: a run ends before the walk only when the sections
\* listing cannot be fetched or parsed; in every run that retrieves it, the
\* run ends after the executor, having reported the count of planned files.
SectionsRetrieved == catalog.secStatus = "ok"
SummaryCount ==
    {log[i].arg : i \in {j \in 1..Len(log) : log[j].ev = "Total files to download"}}
C11_SummaryUnlessSectionsFail ==
    pc \in Ended =>
        IF SectionsRetrieved
        THEN pc = "done" /\ SummaryCount = {<<ToString(Len(all_tasks))>>}
        ELSE pc = "aborted"

\* C12: in the executor the blocking delay is taken after a task exactly
\* when its transfer succeeded and download_delay > 0: the download requests
\* and the delays of a run are, task by task in queue order, one request and
\* then one delay if that attempt succeeded under a positive delay, nothing
\* else; so no delay follows a failure, none is taken under a delay that is
\* not positive, and a task is not requested again after a delay.
IsPacingCall(c) == c.op = "sleep" \/ IsDownloadGet(c)
PacedAttempt(i) ==
    <<Call("GET", all_tasks[i].download_url)>>
    \o (IF attempts[i].ok /\ download_delay > 0
        THEN <<Call("sleep", <<>>)>> ELSE <<>>)
C12_Pacing ==
    /\ pc \in {"exec", "done"} =>
          SelectSeq(calls, IsPacingCall) =
              Flatten([i \in 1..Len(attempts) |-> PacedAttempt(i)])
    /\ pc \notin {"exec", "done"} =>
          \A i \in 1..Len(calls) : calls[i].op # "sleep"

\* A finished execution under a positive delay in which one transfer failed
\* and the task after it succeeded, with a delay taken.
C12_Witness ==
    /\ pc = "done" /\ download_delay > 0
    /\ \E i \in 1..(Len(attempts) - 1) : ~attempts[i].ok /\ attempts[i + 1].ok
    /\ \E i \in 1..Len(calls) : calls[i].op = "sleep"

\* C13, as stated: for every photo that has a part key the path mapping
\* does not fail, a photo whose title is absent or empty is named
\* "{ratingKey}_{sanitize(ratingKey)}.{container}" (the id standing in for
\* an absent ratingKey), and the title component of a filename is not empty.
RECURSIVE FrameResults(_)
FrameResults(k) ==
    IF k = 0 THEN <<>> ELSE FrameResults(k - 1) \o stack[k].results
GatheredTasks == all_tasks \o FrameResults(Len(stack))
C13_TitleFallback ==
    /\ pc # "crashed"
    /\ \A k \in 1..Len(Discovered) :
          LET e == PhotoAt(Discovered[k])
              key == KeyOfPhoto(e)
          IN /\ ~Truthy(e.title) =>
                    GatheredTasks[k].filename =
                        key.v \o <<"_">> \o Clean(key.v) \o <<".">> \o ContainerOf(e)
             /\ Clean(TitleSource(e).v) # <<>>

\* C14: a top-level album the inclusion list leaves out leaves no trace.
\* The step that skips it changes the log, by the skip observation, and the
\* position in the section's listing, and nothing else: no request is made,
\* no directory is created, no task is gathered, no call is entered.  And
\* at no time has the run requested the listing of such an album or of a
\* node below it, or gathered a task from one.
BelowExcluded(m) ==
    \E n \in Ancestors(m) : IsTopAlbum(n) /\ ~Included(n)
AlbumSkipStep ==
    /\ Len(log') = Len(log) + 1
    /\ log'[Len(log')].ev = "SKIP (album not in INCLUDE_ALBUMS)"
NoTraceStep ==
    AlbumSkipStep =>
        /\ SubSeq(log', 1, Len(log)) = log
        /\ UNCHANGED <<dirs, files, truncated, calls, all_tasks, all_origins>>
        /\ GatheredTasks' = GatheredTasks
        /\ Len(stack') = Len(stack)
        /\ stack' = SetTop([Top EXCEPT !.di = @ + 1])
NoTraceSoFar ==
    \A m \in Nodes :
        BelowExcluded(m) =>
            /\ Gets(NodeUrl(catalog, m)) = 0
            /\ \A k \in 1..Len(Discovered) : NodeOf(Discovered[k].url) # m
C14_FilteredAlbumNoTrace == []NoTraceSoFar /\ [][NoTraceStep]_vars

\* A finished walk that skipped a top-level album which has a sub-album,
\* with no directory at the album's path and a task in the queue.
C14_Witness ==
    /\ pc = "exec"
    /\ \E n, m \in Nodes :
          /\ IsTopAlbum(n) /\ ~Included(n) /\ Visited(Par(n)) /\ Par(m) = n
          /\ HasEvent("SKIP (album not in INCLUDE_ALBUMS)", TitleOf(n))
          /\ DirOf(n) \notin dirs

\* C15: a file a failed transfer left incomplete counts as present.  A
\* transfer that fails after open() succeeded leaves a file at local_path,
\* and no step of a run removes a file; and a walk never gathers a task for
\* a path at which an incomplete file lies: at the end of the walk every
\* photo with such a path has been reported as SKIP (exists) and has no task.
WalkOnly == pc \in {"start", "walk", "nothing"} \/ (pc = "exec" /\ attempts = <<>>)
WalkOver == pc = "nothing" \/ (pc = "exec" /\ attempts = <<>>)
FailedAfterOpen ==
    /\ Len(attempts') = Len(attempts) + 1
    /\ ~attempts'[Len(attempts')].ok
    /\ RemoteFile(xfer, all_tasks[task_i].download_url) # "http"
    /\ CanOpen(attempts'[Len(attempts')].local_path)
KeepsTruncated ==
    /\ files \subseteq files'
    /\ FailedAfterOpen =>
          Norm(attempts'[Len(attempts')].local_path) \in (files' \cap truncated')
TruncatedIsPresent ==
    /\ truncated \subseteq files
    /\ WalkOnly =>
          \A k \in 1..Len(GatheredTasks) :
              Norm(GatheredTasks[k].local_path) \notin truncated
    /\ WalkOver =>
          \A o \in Occurrences :
              LET e == PhotosOf(o[1])[o[2]]
              IN (Visited(o[1]) /\ HasKey(e)
                  /\ Norm(ExpectedPath(o[1], e)) \in truncated) =>
                     /\ HasEvent("SKIP (exists)", ExpectedPath(o[1], e))
                     /\ Count(OriginOf(o[1], o[2])) = 0
C15_TruncatedTreatedAsPresent == []TruncatedIsPresent /\ [][KeepsTruncated]_vars

\* The walk of a later run has ended with incomplete files of an earlier
\* run in the tree, one of them at the path of a photo it visited.
C15_Witness ==
    /\ WalkOver /\ prev.ran /\ prev.planned /\ ~prev.ok
    /\ \E o \in Occurrences :
          /\ Visited(o[1]) /\ HasKey(PhotosOf(o[1])[o[2]])
          /\ Norm(ExpectedPath(o[1], PhotosOf(o[1])[o[2]])) \in truncated

\* C16: the walk and the execution of a run do not overlap.  When the
\* executor runs, every photo section has been walked and no call of the walk
\* is in progress; in the calls of a run every catalog request, existence
\* check and directory creation comes before every download request, open
\* and delay; transfers are attempted only by the executor, on the tasks of
\* the queue in its order; and no step of the executor changes the queue.
IsExecCall(c) == c.op \in {"open", "sleep"} \/ IsDownloadGet(c)
PhasesApart ==
    /\ pc \in {"exec", "done"} =>
          /\ stack = <<>> /\ sec_i = Len(photo_sections) + 1
          /\ \A n \in Nodes : Entered(n) => Gets(NodeUrl(catalog, n)) = 1
          /\ all_tasks = GatheredTasks
    /\ pc \notin {"exec", "done"} =>
          /\ attempts = <<>>
          /\ \A i \in 1..Len(calls) : ~IsExecCall(calls[i])
    /\ \A i, j \in 1..Len(calls) :
          (i < j /\ IsExecCall(calls[i])) => IsExecCall(calls[j])
    /\ \A i \in 1..Len(attempts) :
          attempts[i].local_path = all_tasks[i].local_path
QueueFrozen ==
    (pc = "exec" \/ pc' \in {"exec", "done"}) =>
        /\ all_tasks' = all_tasks
        /\ all_origins' = all_origins
        /\ stack' = <<>>
C16_PhaseSeparation == []PhasesApart /\ [][QueueFrozen]_vars

\* A finished run over two photo sections: existence checks, then the
\* transfers of a queue with tasks of both sections.
C16_Witness ==
    /\ pc = "done"
    /\ \E a, b \in 1..Len(all_origins) :
          /\ IsSection(NodeOf(all_origins[a].url))
          /\ IsSection(NodeOf(all_origins[b].url))
          /\ all_origins[a].url # all_origins[b].url
    /\ \E i, j \in 1..Len(calls) :
          i < j /\ calls[i].op = "exists" /\ IsDownloadGet(calls[j])

\* C17, as stated: when execution starts, the directory that contains the
\* local_path of each task of the queue exists, created by the walk.
C17_DirectoryCreated ==
    pc = "exec" =>
        \A k \in 1..Len(all_tasks) :
            /\ DirName(Norm(all_tasks[k].local_path)) \in dirs
            /\ \E i \in 1..Len(calls) :
                  /\ calls[i].op = "makedirs"
                  /\ DirName(Norm(all_tasks[k].local_path)) \in MakeDirs({}, calls[i].arg)

\* C18: the walk of a catalog (a finite tree of albums) terminates.  A run
\* that is in its walk leaves it: main gets its queue, or returns for want
\* of sections, or the walk ends in an exception.  Meanwhile no listing is
\* requested twice, the calls in progress are the section call and one
\* gather_album_photos call for each album from the top-level album down to
\* the one being read, so the recursion depth is that album's nesting depth,
\* and at the end every listing the walk has to read was requested once.
InWalk == pc \in {"start", "walk"}
WalkShape ==
    /\ \A n \in Nodes : Gets(NodeUrl(catalog, n)) <= 1
    /\ (pc = "walk" /\ stack # <<>>) =>
          LET line == Lineage(NodeOf(Top.url))
          IN /\ Len(stack) = Len(line)
             /\ \A k \in 1..Len(stack) : stack[k].url = NodeUrl(catalog, line[k])
             /\ \A k \in 1..Len(stack) :
                   stack[k].fn = (IF k = 1 THEN "section" ELSE "album")
    /\ Planned =>
          \A n \in Nodes :
              Gets(NodeUrl(catalog, n)) = (IF Entered(n) THEN 1 ELSE 0)
C18_WalkTerminates == []WalkShape /\ (InWalk ~> ~InWalk)

\* A walk that went down to a sub-album without sub-albums of its own,
\* read its listing and came back with the queue.
C18_Witness ==
    /\ pc = "exec"
    /\ \E n \in Nodes :
          /\ IsSubAlbum(n) /\ Visited(n) /\ Gets(NodeUrl(catalog, n)) = 1
          /\ \A m \in Nodes : Par(m) # n

====
